---- MODULE Spec2Model ----
(***************************************************************************)
(* Grid of src/index.js: Conway's Game of Life on a square wrap-around     *)
(* board whose live cells carry an owner.  The state is one Grid object:   *)
(* its size and its list of live cells (this.cells).  The operations are   *)
(* mountSnapshot and next.  Besides the Grid's own fields the model keeps  *)
(* a record of the last call (its name, its argument, the list it started  *)
(* from, the list after each move, whether it ended by an exception), so   *)
(* that what a call did can be stated as a predicate on one state; calls    *)
(* and issued count the calls made and the moves issued so far.            *)
(***************************************************************************)
EXTENDS Integers, Sequences, FiniteSets

VARIABLES size, cells, op, arg, pre, flips, threw, calls, issued

vars == <<size, cells, op, arg, pre, flips, threw, calls, issued>>

(***************************************************************************)
(* Bounds of the model.                                                    *)
(***************************************************************************)
\* Board sizes are 1..MaxSize and player ids 1..MaxPlayer.
MaxSize == 4
MaxPlayer == 2
\* The records of one snapshot.
MaxSnapshot == 3
\* The moves issued in one run, over all calls of next.
MaxMoves == 2
\* The calls of mountSnapshot and next in one run.
MaxCalls == 2

\* Cell.owner of a cell nobody owns (src/index.js:13, tested at :119).
Unowned == -1

Players == 1..MaxPlayer
Owners == Players \cup {Unowned}

(***************************************************************************)
(* Cell (src/index.js:11-30).  tmpAliveNeighbours is empty in every cell   *)
(* of this.cells (only birth candidates get entries, and setOwner clears   *)
(* them before the candidate is pushed), so a live cell is x, y and owner. *)
(***************************************************************************)
Cell(x, y, owner) == [x |-> x, y |-> y, owner |-> owner]

\* Cell.equals: the coordinates match; the owner is not looked at.
equals(a, b) ==
    IF a.x = b.x THEN (IF a.y = b.y THEN TRUE ELSE FALSE) ELSE FALSE

\* Array.prototype.findIndex with cell.equals: the first index holding a
\* cell equal to c, 0 when there is none (JavaScript's -1; lists are 1-based
\* here).
RECURSIVE findFrom(_, _, _)
findFrom(cs, c, i) ==
    IF i > Len(cs) THEN 0
    ELSE IF equals(cs[i], c) THEN i
    ELSE findFrom(cs, c, i + 1)

findIndex(cs, c) == findFrom(cs, c, 1)

\* Array.prototype.splice(i, 1): the list without its i-th element.
splice(cs, i) == [k \in 1..(Len(cs) - 1) |-> IF k < i THEN cs[k] ELSE cs[k + 1]]

(***************************************************************************)
(* next, step 1: the player commands (src/index.js:67-77).                 *)
(***************************************************************************)
\* Variants of applyMove with a slip: the head of the list is removed in
\* place of the cell found; a cell is only removed by its owner; a move off
\* the board (a negative coordinate) is dropped.
applyMoveSpliceHead(cs, move) ==
    LET flip == Cell(move.x, move.y, move.playerid)
        flipIndex == findIndex(cs, flip)
    IN  IF flipIndex # 0 THEN splice(cs, 1) ELSE Append(cs, flip)

applyMoveOwnCellsOnly(cs, move) ==
    LET flip == Cell(move.x, move.y, move.playerid)
        own == {i \in 1..Len(cs) : cs[i] = flip}
    IN  IF own # {} THEN splice(cs, CHOOSE i \in own : \A j \in own : i <= j)
        ELSE Append(cs, flip)

applyMoveOnBoardOnly(cs, move) ==
    LET flip == Cell(move.x, move.y, move.playerid)
        flipIndex == findIndex(cs, flip)
    IN  IF move.x < 0 \/ move.y < 0 THEN cs
        ELSE IF flipIndex # 0 THEN splice(cs, flipIndex) ELSE Append(cs, flip)

applyMove(cs, move) ==
    LET flip == Cell(move.x, move.y, move.playerid)
        flipIndex == findIndex(cs, flip)
    IN  IF flipIndex # 0 THEN splice(cs, flipIndex) ELSE Append(cs, flip)

\* The lists this.cells goes through in the loop over turnMoves: the list
\* the call started from, then the list after each move.
RECURSIVE flipTrace(_, _)
flipTrace(cs, moves) ==
    IF moves = <<>> THEN <<cs>>
    ELSE <<cs>> \o flipTrace(applyMove(cs, Head(moves)), Tail(moves))

Last(s) == s[Len(s)]

applyMoves(cs, moves) == Last(flipTrace(cs, moves))

(***************************************************************************)
(* next, step 2: the generation step (src/index.js:82-205).                *)
(***************************************************************************)
\* The wrap of a shifted coordinate, as lines 94-95, 145-146 and 179-180
\* write it.  For v >= 0 JavaScript's % is the mathematical remainder.
\* Variant of wrapMod with a slip: a negative shift is left as it is.
wrapModNoLift(v, n) == IF v < 0 THEN v ELSE v % n

wrapMod(v, n) == IF v < 0 THEN v + n ELSE v % n

\* for (const i of [-1, 0, 1]) for (const j of [-1, 0, 1]), (0, 0) skipped.
Shifts ==
    << <<-1, -1>>, <<-1, 0>>, <<-1, 1>>, <<0, -1>>,
       <<0, 1>>, <<1, -1>>, <<1, 0>>, <<1, 1>> >>

\* new Cell(xMod, yMod) for shift number s of the cell c.
shifted(c, s, n) ==
    Cell(wrapMod(c.x + Shifts[s][1], n), wrapMod(c.y + Shifts[s][2], n), Unowned)

isAlive(cs, c) == findIndex(cs, c) # 0

\* The filter of line 97.
gridCell(cs, c) == SelectSeq(cs, LAMBDA oldCell : equals(oldCell, c))

RECURSIVE neighboursFrom(_, _, _, _)
neighboursFrom(cs, c, s, n) ==
    IF s > Len(Shifts) THEN <<>>
    ELSE LET neighbourCell == shifted(c, s, n)
             found == gridCell(cs, neighbourCell)
         IN  (IF Len(found) # 0 THEN found ELSE <<neighbourCell>>)
                 \o neighboursFrom(cs, c, s + 1, n)

getNeighboursOf(cs, c, n) == neighboursFrom(cs, c, 1, n)

getAliveNeighboursOf(cs, c, n) ==
    SelectSeq(getNeighboursOf(cs, c, n), LAMBDA nb : isAlive(cs, nb))

\* Variant of isHealthy with a slip: two live neighbours do not keep a cell.
isHealthyWithThree(cs, c, n) == Len(getAliveNeighboursOf(cs, c, n)) = 3

isHealthy(cs, c, n) == Len(getAliveNeighboursOf(cs, c, n)) \in {2, 3}

\* shouldBeBorn's tmpAliveNeighbours: for each shift whose wrapped position
\* holds a live cell, the first such cell of this.cells.
RECURSIVE aliveFrom(_, _, _, _)
aliveFrom(cs, c, s, n) ==
    IF s > Len(Shifts) THEN <<>>
    ELSE LET neighbourCellIndex == findIndex(cs, shifted(c, s, n))
         IN  (IF neighbourCellIndex # 0 THEN <<cs[neighbourCellIndex]>> ELSE <<>>)
                 \o aliveFrom(cs, c, s + 1, n)

tmpAliveNeighbours(cs, c, n) == aliveFrom(cs, c, 1, n)

\* counter === 3; counter is the length of tmpAliveNeighbours.
shouldBeBorn(cs, c, n) == Len(tmpAliveNeighbours(cs, c, n)) = 3

(***************************************************************************)
(* most (src/index.js:115-135).  playersCount has one key per owner other  *)
(* than -1.  The owners of the model are positive integers, so Object.keys *)
(* lists them as decimal strings in ascending numeric order and parseInt   *)
(* gives the number back; the keys are kept as the numbers here.           *)
(***************************************************************************)
playersCount(an) ==
    [p \in {an[i].owner : i \in {k \in 1..Len(an) : an[k].owner # Unowned}} |->
        Cardinality({i \in 1..Len(an) : an[i].owner = p})]

\* Object.keys(playersCount).reverse(): the keys in descending order.
RECURSIVE descending(_)
descending(S) ==
    IF S = {} THEN <<>>
    ELSE LET top == CHOOSE p \in S : \A q \in S : q <= p
         IN  <<top>> \o descending(S \ {top})

reversedKeys(an) == descending(DOMAIN playersCount(an))

\* reduce((a, b) => playersCount[a] > playersCount[b] ? a : b) with no
\* initial value, on a list that is not empty.
\* Variant of the reduction with a slip: the comparison is turned round.
RECURSIVE reduceLeastFrom(_, _, _, _)
reduceLeastFrom(count, keys, a, i) ==
    IF i > Len(keys) THEN a
    ELSE reduceLeastFrom(count, keys,
                         IF count[a] < count[keys[i]] THEN a ELSE keys[i], i + 1)

RECURSIVE reduceFrom(_, _, _, _)
reduceFrom(count, keys, a, i) ==
    IF i > Len(keys) THEN a
    ELSE reduceFrom(count, keys, IF count[a] > count[keys[i]] THEN a ELSE keys[i], i + 1)

\* reduce of an empty list with no initial value throws a TypeError.
mostThrows(an) == reversedKeys(an) = <<>>

most(an) ==
    LET keys == reversedKeys(an)
    IN  reduceFrom(playersCount(an), keys, keys[1], 2)

\* setOwner (src/index.js:163-167); only used where most does not throw.
setOwner(c, an) == Cell(c.x, c.y, most(an))

(***************************************************************************)
(* The scan for births (src/index.js:169-192).  Step t of the scan is cell *)
(* number (t \div 8) + 1 of this.cells with shift number (t % 8) + 1.  The *)
(* scan ends when all cells are done or when setOwner throws.              *)
(***************************************************************************)
\* Variant of the scan with a slip: the candidates are not entered in checked.
RECURSIVE scanFromUnchecked(_, _, _, _, _)
scanFromUnchecked(cs, n, t, checked, newBorns) ==
    IF t >= 8 * Len(cs)
    THEN [newBorns |-> newBorns, threw |-> FALSE]
    ELSE LET currentCell == cs[(t \div 8) + 1]
             neighbour == shifted(currentCell, (t % 8) + 1, n)
             tmp == tmpAliveNeighbours(cs, neighbour, n)
         IN  IF isAlive(cs, neighbour) \/ Len(tmp) # 3
             THEN scanFromUnchecked(cs, n, t + 1, checked, newBorns)
             ELSE IF mostThrows(tmp)
                  THEN [newBorns |-> newBorns, threw |-> TRUE]
             ELSE scanFromUnchecked(cs, n, t + 1, checked,
                                    Append(newBorns, setOwner(neighbour, tmp)))

RECURSIVE scanFrom(_, _, _, _, _)
scanFrom(cs, n, t, checked, newBorns) ==
    IF t >= 8 * Len(cs)
    THEN [newBorns |-> newBorns, threw |-> FALSE]
    ELSE LET currentCell == cs[(t \div 8) + 1]
             neighbour == shifted(currentCell, (t % 8) + 1, n)
             key == <<neighbour.x, neighbour.y>>
             tmp == tmpAliveNeighbours(cs, neighbour, n)
         IN  IF isAlive(cs, neighbour) THEN scanFrom(cs, n, t + 1, checked, newBorns)
             ELSE IF key \in checked THEN scanFrom(cs, n, t + 1, checked, newBorns)
             ELSE IF Len(tmp) # 3
                  THEN scanFrom(cs, n, t + 1, checked \cup {key}, newBorns)
             ELSE IF mostThrows(tmp)
                  THEN [newBorns |-> newBorns, threw |-> TRUE]
             ELSE scanFrom(cs, n, t + 1, checked \cup {key},
                           Append(newBorns, setOwner(neighbour, tmp)))

\* Variant of birthScan with a slip: newBorns does not start empty.
birthScanSeeded(cs, n) == scanFrom(cs, n, 0, {}, <<Cell(0, 0, Unowned)>>)

birthScan(cs, n) == scanFrom(cs, n, 0, {}, <<>>)

\* Variant of stillAliveCells with a slip: the survival test counts the
\* newborn cells as well.
stillAliveAmongNewBorns(cs, n) ==
    LET all == birthScan(cs, n).newBorns \o cs
    IN  SelectSeq(cs, LAMBDA c : isHealthy(all, c, n))

stillAliveCells(cs, n) == SelectSeq(cs, LAMBDA c : isHealthy(cs, c, n))

\* this.cells when the generation step ends: [...newBorns, ...stillAliveCells]
\* (line 205), or the list the moves left when the TypeError of most leaves
\* next before line 205.
step(cs, n) ==
    LET scan == birthScan(cs, n)
    IN  IF scan.threw THEN cs ELSE scan.newBorns \o stillAliveCells(cs, n)

stepThrows(cs, n) == birthScan(cs, n).threw

(***************************************************************************)
(* The inputs of the model.  Coordinates are taken around the corner where *)
(* both wrap seams meet: the origin, its right neighbour, and its          *)
(* neighbours across the left and the top edge.  A snapshot holds one      *)
(* player's cells in row-major order, as the snapshots of                  *)
(* src/tests/performance.spec.js do; moves are any list of records.        *)
(***************************************************************************)
InputCoords(n) ==
    {c \in {<<0, 0>>, <<1, 0>>, <<n - 1, 0>>, <<0, n - 1>>} : c[1] < n /\ c[2] < n}

RECURSIVE rowMajor(_, _)
rowMajor(S, owner) ==
    IF S = {} THEN <<>>
    ELSE LET first == CHOOSE c \in S :
                 \A d \in S : c[1] < d[1] \/ (c[1] = d[1] /\ c[2] <= d[2])
         IN  <<[x |-> first[1], y |-> first[2], playerid |-> owner]>>
                 \o rowMajor(S \ {first}, owner)

Snapshots(n) ==
    {rowMajor(S, owner) :
        S \in {T \in SUBSET InputCoords(n) : Cardinality(T) <= MaxSnapshot},
        owner \in Owners}

MoveRecords(n) ==
    {[x |-> c[1], y |-> c[2], playerid |-> p] : c \in InputCoords(n), p \in Owners}

MoveLists(n) == UNION {[1..k -> MoveRecords(n)] : k \in 0..MaxMoves}

\* Moves that miss the board: left of it, right of it, and a whole board
\* height above it; with them, moves on the origin.
RawCoords(n) == {<<-1, 0>>, <<n, 0>>, <<0, -n>>}

RawMoveRecords(n) ==
    {[x |-> c[1], y |-> c[2], playerid |-> p] :
        c \in RawCoords(n) \cup {<<0, 0>>}, p \in Owners}

RawMoveLists(n) == UNION {[1..k -> RawMoveRecords(n)] : k \in 0..MaxMoves}

\* The input sets of each board size, computed once.
SnapshotsOf == [n \in 1..(MaxSize + 1) |-> Snapshots(n)]

MoveListsOf == [n \in 1..(MaxSize + 1) |-> MoveLists(n)]

RawMoveListsOf == [n \in 1..(MaxSize + 1) |-> RawMoveLists(n)]

(***************************************************************************)
(* The Grid.                                                               *)
(***************************************************************************)
\* new Grid(size) (src/index.js:45-50).
Init ==
    /\ size \in 1..MaxSize
    /\ cells = <<>>
    /\ op = "new"
    /\ arg = <<>>
    /\ pre = <<>>
    /\ flips = <<>>
    /\ threw = FALSE
    /\ calls = 0
    /\ issued = 0

\* mountSnapshot (src/index.js:208-214): one push per record.
\* Variant of mounted with a slip: a record on a coordinate that is live
\* already is skipped.
mountedWhereDead(cs, snapshot) ==
    cs \o SelectSeq([i \in 1..Len(snapshot) |->
                        Cell(snapshot[i].x, snapshot[i].y, snapshot[i].playerid)],
                    LAMBDA c : findIndex(cs, c) = 0)

mounted(cs, snapshot) ==
    cs \o [i \in 1..Len(snapshot) |->
              Cell(snapshot[i].x, snapshot[i].y, snapshot[i].playerid)]

mountSnapshot(snapshot) ==
    /\ cells' = mounted(cells, snapshot)
    /\ op' = "mountSnapshot"
    /\ arg' = snapshot
    /\ pre' = cells
    /\ flips' = <<>>
    /\ threw' = FALSE
    /\ calls' = calls + 1
    /\ UNCHANGED <<size, issued>>

\* next (src/index.js:63-206).
next(turnMoves) ==
    LET trace == flipTrace(cells, turnMoves)
        scan == birthScan(Last(trace), size)
    IN  /\ cells' = IF scan.threw THEN Last(trace)
                    ELSE scan.newBorns \o stillAliveCells(Last(trace), size)
        /\ op' = "next"
        /\ arg' = turnMoves
        /\ pre' = cells
        /\ flips' = trace
        /\ threw' = scan.threw
        /\ calls' = calls + 1
        /\ issued' = issued + Len(turnMoves)
        /\ UNCHANGED size

\* A run makes at most MaxCalls calls and issues at most MaxMoves moves.
CallsLeft == calls < MaxCalls

MovesLeft(turnMoves) == issued + Len(turnMoves) <= MaxMoves

Next ==
    \/ \E snapshot \in SnapshotsOf[size] : CallsLeft /\ mountSnapshot(snapshot)
    \/ \E turnMoves \in MoveListsOf[size] :
           CallsLeft /\ MovesLeft(turnMoves) /\ next(turnMoves)

Spec == Init /\ [][Next]_vars

\* The same Grid driven with moves that miss the board.
NextRaw ==
    \/ \E snapshot \in SnapshotsOf[size] : CallsLeft /\ mountSnapshot(snapshot)
    \/ \E turnMoves \in RawMoveListsOf[size] :
           CallsLeft /\ MovesLeft(turnMoves) /\ next(turnMoves)

SpecRaw == Init /\ [][NextRaw]_vars

(***************************************************************************)
(* The two scripted games of src/tests/performance.spec.js: the wrap-      *)
(* around game on a board of size 5 (lines 87-121) and the blinker game on *)
(* a board of size 50 (lines 39-85).  A run takes one of the two boards,   *)
(* mounts the game's snapshot and then makes the game's calls of next in   *)
(* order.  The records of each call carry one player id, any of Players,   *)
(* and come in any order.                                                  *)
(***************************************************************************)
TorusSize == 5

BlinkerSize == 50

ScriptSnapshot ==
    [n \in {TorusSize, BlinkerSize} |->
        IF n = TorusSize THEN {<<1, 2>>, <<2, 2>>, <<3, 2>>}
        ELSE {<<2, 3>>, <<3, 3>>, <<4, 3>>}]

\* The move coordinates of the successive calls of next.
ScriptMoves ==
    [n \in {TorusSize, BlinkerSize} |->
        IF n = TorusSize
        THEN << {<<4, 1>>, <<4, 3>>}, {<<0, 1>>, <<4, 1>>}, {<<4, 3>>} >>
        ELSE << {<<10, 10>>, <<15, 15>>, <<25, 25>>},
                {<<5, 2>>, <<1, 4>>, <<25, 25>>}, {}, {}, {} >>]

\* The lists that hold each coordinate of S once, as records of player p.
RecordLists(S, p) ==
    {[i \in 1..Cardinality(S) |-> [x |-> f[i][1], y |-> f[i][2], playerid |-> p]] :
        f \in {g \in [1..Cardinality(S) -> S] :
                  \A i, j \in 1..Cardinality(S) : g[i] = g[j] => i = j}}

ScriptSnapshots ==
    [n \in {TorusSize, BlinkerSize} |->
        UNION {RecordLists(ScriptSnapshot[n], p) : p \in Players}]

ScriptMoveLists ==
    [n \in {TorusSize, BlinkerSize} |->
        [k \in 1..Len(ScriptMoves[n]) |->
            UNION {RecordLists(ScriptMoves[n][k], p) : p \in Players}]]

InitScript ==
    /\ size \in {TorusSize, BlinkerSize}
    /\ cells = <<>>
    /\ op = "new"
    /\ arg = <<>>
    /\ pre = <<>>
    /\ flips = <<>>
    /\ threw = FALSE
    /\ calls = 0
    /\ issued = 0

NextScript ==
    \/ \E snapshot \in ScriptSnapshots[size] : calls = 0 /\ mountSnapshot(snapshot)
    \/ \E k \in 1..Len(ScriptMoves[size]) : \E turnMoves \in ScriptMoveLists[size][k] :
           calls = k /\ next(turnMoves)

SpecScript == InitScript /\ [][NextScript]_vars

(***************************************************************************)
(* The Grid driven with snapshots whose cells have owners of their own:    *)
(* one snapshot is mounted on the new grid, then next is called with at    *)
(* most MaxOrderMoves moves in a call.                                     *)
(***************************************************************************)
MaxOrderMoves == 1

\* The row-major lists of records on the coordinates of S, every owner for
\* every record.
RECURSIVE rowMajorMixed(_)
rowMajorMixed(S) ==
    IF S = {} THEN {<<>>}
    ELSE LET first == CHOOSE c \in S :
                 \A d \in S : c[1] < d[1] \/ (c[1] = d[1] /\ c[2] <= d[2])
         IN  {<<[x |-> first[1], y |-> first[2], playerid |-> p]>> \o rest :
                 p \in Owners, rest \in rowMajorMixed(S \ {first})}

MixedSnapshots(n) ==
    UNION {rowMajorMixed(S) :
              S \in {T \in SUBSET InputCoords(n) : Cardinality(T) <= MaxSnapshot}}

ShortMoveLists(n) == UNION {[1..k -> MoveRecords(n)] : k \in 0..MaxOrderMoves}

MixedSnapshotsOf == [n \in 1..(MaxSize + 1) |-> MixedSnapshots(n)]

ShortMoveListsOf == [n \in 1..(MaxSize + 1) |-> ShortMoveLists(n)]

NextOrder ==
    \/ \E snapshot \in MixedSnapshotsOf[size] : calls = 0 /\ mountSnapshot(snapshot)
    \/ \E turnMoves \in ShortMoveListsOf[size] :
           calls > 0 /\ CallsLeft /\ next(turnMoves)

SpecOrder == Init /\ [][NextOrder]_vars

(***************************************************************************)
(* Vocabulary of the properties.  These definitions do not use the         *)
(* operators that model the code: positions wrap by the mathematical       *)
(* remainder, and a list is looked at as the collection of its cells.      *)
(***************************************************************************)
Board(n) == (0..(n - 1)) \X (0..(n - 1))

Around == {d \in {-1, 0, 1} \X {-1, 0, 1} : d # <<0, 0>>}

LiveAt(cs, x, y) == \E i \in 1..Len(cs) : cs[i].x = x /\ cs[i].y = y

\* How many cells of cs sit at (x, y), and how many of them equal the cell c.
CountAt(cs, x, y) == Cardinality({i \in 1..Len(cs) : cs[i].x = x /\ cs[i].y = y})

CountOf(cs, c) == Cardinality({i \in 1..Len(cs) : cs[i] = c})

LiveCoords(cs) == {<<cs[i].x, cs[i].y>> : i \in 1..Len(cs)}

InRange(cs, n) ==
    \A i \in 1..Len(cs) : cs[i].x \in 0..(n - 1) /\ cs[i].y \in 0..(n - 1)

CoordUnique(cs) ==
    \A i, j \in 1..Len(cs) : (cs[i].x = cs[j].x /\ cs[i].y = cs[j].y) => i = j

\* The live neighbours of (x, y) on the torus, one per offset.
LiveAround(cs, x, y, n) ==
    {d \in Around : LiveAt(cs, (x + d[1]) % n, (y + d[2]) % n)}

LiveNeighbours(cs, x, y, n) == Cardinality(LiveAround(cs, x, y, n))

\* The last call was next; Flipped is the list its moves left.
AfterNext == op = "next"

Flipped == Last(flips)

(***************************************************************************)
(* C9: next never fails: no call of next ends by an exception.             *)
(* The code contradicts it: three unowned live cells around a dead         *)
(* position make most reduce an empty list.                                *)
(***************************************************************************)
C9_NextNeverFails == AfterNext => ~threw

(***************************************************************************)
(* C1: birth exactness: after next, a position of the board that was dead  *)
(* when the moves had been applied (the list then in range and             *)
(* coordinate-unique) is live iff exactly 3 of its 8 wrapped neighbour     *)
(* positions were live then.                                               *)
(***************************************************************************)
C1_BirthExactness ==
    (AfterNext /\ InRange(Flipped, size) /\ CoordUnique(Flipped)) =>
        \A c \in Board(size) :
            ~LiveAt(Flipped, c[1], c[2]) =>
                (LiveAt(cells, c[1], c[2]) <=> LiveNeighbours(Flipped, c[1], c[2], size) = 3)

\* The same for the calls of next that end without the exception of C9.
BirthExactnessUnlessThrown == threw \/ C1_BirthExactness

(***************************************************************************)
(* C2: survival band: after next, a cell that was live when the moves had  *)
(* been applied (the list then in range and coordinate-unique) is still    *)
(* live iff 2 or 3 of its 8 wrapped neighbour positions were live then.    *)
(***************************************************************************)
C2_SurvivalBand ==
    (AfterNext /\ InRange(Flipped, size) /\ CoordUnique(Flipped)) =>
        \A i \in 1..Len(Flipped) :
            LiveAt(cells, Flipped[i].x, Flipped[i].y) <=>
                LiveNeighbours(Flipped, Flipped[i].x, Flipped[i].y, size) \in {2, 3}

SurvivalBandUnlessThrown == threw \/ C2_SurvivalBand

(***************************************************************************)
(* C3: next applies the moves in list order, each to the list the move     *)
(* before it left: a move on a live coordinate takes one cell away from    *)
(* that coordinate (so it is dead where cells are coordinate-unique),      *)
(* whoever owns the cell and whoever moves; a move on a dead coordinate    *)
(* puts one cell there, owned by the mover; the cells at the other         *)
(* coordinates stay as they are.                                           *)
(***************************************************************************)
MoveEffect(before, move, after) ==
    /\ IF LiveAt(before, move.x, move.y)
       THEN /\ CountAt(after, move.x, move.y) = CountAt(before, move.x, move.y) - 1
            /\ \A i \in 1..Len(after) :
                   (after[i].x = move.x /\ after[i].y = move.y) =>
                       CountOf(after, after[i]) <= CountOf(before, after[i])
       ELSE /\ CountAt(after, move.x, move.y) = 1
            /\ CountOf(after, Cell(move.x, move.y, move.playerid)) = 1
    /\ \A i \in 1..Len(before) :
           (before[i].x # move.x \/ before[i].y # move.y) =>
               CountOf(after, before[i]) = CountOf(before, before[i])
    /\ \A i \in 1..Len(after) :
           (after[i].x # move.x \/ after[i].y # move.y) =>
               CountOf(before, after[i]) = CountOf(after, after[i])

C3_MovesInOrder ==
    AfterNext =>
        /\ Len(flips) = Len(arg) + 1
        /\ flips[1] = pre
        /\ \A k \in 1..Len(arg) : MoveEffect(flips[k], arg[k], flips[k + 1])

\* Two moves on one coordinate: the first removes another player's cell, the
\* second, made against the list the first one left, puts the mover's cell
\* there, and a cell elsewhere is still in the list.
C3_Witness ==
    /\ AfterNext
    /\ Len(arg) = 2
    /\ arg[1].x = arg[2].x /\ arg[1].y = arg[2].y
    /\ \E i \in 1..Len(pre) :
           /\ pre[i].x = arg[1].x /\ pre[i].y = arg[1].y
           /\ pre[i].owner \notin {arg[1].playerid, arg[2].playerid}
    /\ ~LiveAt(flips[2], arg[1].x, arg[1].y)
    /\ CountOf(Flipped, Cell(arg[2].x, arg[2].y, arg[2].playerid)) = 1
    /\ Len(Flipped) >= 2

(***************************************************************************)
(* C4: toggle twice within a batch: from a coordinate-unique list, a batch *)
(* that holds the same move twice leaves the move's coordinate as live as  *)
(* it was, and next leaves the live coordinates that next with no moves    *)
(* leaves.                                                                 *)
(***************************************************************************)
C4_ToggleTwice ==
    (AfterNext /\ Len(arg) = 2 /\ arg[1] = arg[2] /\ CoordUnique(pre)) =>
        /\ LiveAt(Flipped, arg[1].x, arg[1].y) <=> LiveAt(pre, arg[1].x, arg[1].y)
        /\ LiveCoords(cells) = LiveCoords(step(pre, size))

\* The same where neither of the two calls ends by the exception of C9.
ToggleTwiceUnlessThrown == threw \/ stepThrows(pre, size) \/ C4_ToggleTwice

(***************************************************************************)
(* C5: wrap-around adjacency: when the moves have been applied, a live     *)
(* cell in column 0 is among the live cells the birth count and the        *)
(* survival count find around the position of its row in column size - 1,  *)
(* and a live cell in column size - 1 around that in column 0; likewise    *)
(* for rows 0 and size - 1.                                                *)
(***************************************************************************)
HoldsCellAt(list, x, y) == \E i \in 1..Len(list) : list[i].x = x /\ list[i].y = y

CountedAround(cs, c, x, y) ==
    /\ HoldsCellAt(tmpAliveNeighbours(cs, Cell(x, y, Unowned), size), c.x, c.y)
    /\ HoldsCellAt(getAliveNeighboursOf(cs, Cell(x, y, Unowned), size), c.x, c.y)

C5_WrapAdjacency ==
    AfterNext =>
        \A i \in 1..Len(Flipped) :
            LET c == Flipped[i]
            IN  (c.x \in 0..(size - 1) /\ c.y \in 0..(size - 1)) =>
                    /\ c.x = 0 => CountedAround(Flipped, c, size - 1, c.y)
                    /\ c.x = size - 1 => CountedAround(Flipped, c, 0, c.y)
                    /\ c.y = 0 => CountedAround(Flipped, c, c.x, size - 1)
                    /\ c.y = size - 1 => CountedAround(Flipped, c, c.x, 0)

\* A cell is newly born in the last call of next.
NewBorn(i) ==
    /\ AfterNext /\ ~threw
    /\ i \in 1..Len(cells)
    /\ ~LiveAt(Flipped, cells[i].x, cells[i].y)

\* On a board of size 4 a cell is born in column 0 when the moves left
\* three live cells, one of them in column 3: the birth counted the cell
\* across the seam.
C5_Witness ==
    /\ size = 4
    /\ \E i \in 1..Len(cells) :
           /\ NewBorn(i)
           /\ cells[i].x = 0
           /\ Len(Flipped) = 3
           /\ \E j \in 1..Len(Flipped) : Flipped[j].x = 3

(***************************************************************************)
(* C6: ownership by majority: when a cell is born (the list the moves left *)
(* in range and coordinate-unique) and one player owns strictly more of    *)
(* its live neighbours than every other player, unowned neighbours not     *)
(* counted, the newborn cell is owned by that player.                      *)
(***************************************************************************)
OwnerAt(cs, x, y) == cs[CHOOSE i \in 1..Len(cs) : cs[i].x = x /\ cs[i].y = y].owner

\* The live neighbours of (x, y), one per offset, that player p owns.
Tally(cs, x, y, n, p) ==
    Cardinality({d \in LiveAround(cs, x, y, n) :
                    OwnerAt(cs, (x + d[1]) % n, (y + d[2]) % n) = p})

C6_OwnershipByMajority ==
    (AfterNext /\ InRange(Flipped, size) /\ CoordUnique(Flipped)) =>
        \A i \in 1..Len(cells) :
            NewBorn(i) =>
                \A p \in Players :
                    (\A q \in Players \ {p} :
                        Tally(Flipped, cells[i].x, cells[i].y, size, p)
                            > Tally(Flipped, cells[i].x, cells[i].y, size, q))
                    => cells[i].owner = p

\* A cell born with neighbours owned by players 1, 1 and 2.
C6_Witness ==
    \E i \in 1..Len(cells) :
        /\ NewBorn(i)
        /\ Tally(Flipped, cells[i].x, cells[i].y, size, 1) = 2
        /\ Tally(Flipped, cells[i].x, cells[i].y, size, 2) = 1
        /\ cells[i].owner = 1

\* Cells born with neighbours owned by 1, 2, 2 and by nobody, nobody, 2.
MajorityOfTwo ==
    \E i \in 1..Len(cells) :
        /\ NewBorn(i)
        /\ Tally(Flipped, cells[i].x, cells[i].y, size, 1) = 1
        /\ Tally(Flipped, cells[i].x, cells[i].y, size, 2) = 2
        /\ cells[i].owner = 2

MajorityAmongUnowned ==
    \E i \in 1..Len(cells) :
        /\ NewBorn(i)
        /\ Tally(Flipped, cells[i].x, cells[i].y, size, Unowned) = 2
        /\ Tally(Flipped, cells[i].x, cells[i].y, size, 2) = 1
        /\ cells[i].owner = 2

(***************************************************************************)
(* C7: in-bounds invariant: with every snapshot record and every move on   *)
(* the board (the inputs of Spec), every live cell has 0 <= x < size and   *)
(* 0 <= y < size in every state.                                           *)
(***************************************************************************)
C7_InBounds == InRange(cells, size)

\* A cell born in the last row of a board of size 3 or more, next to live
\* cells in row 0 only: its position comes from the wrap of a shift below 0.
C7_Witness ==
    /\ size >= 3
    /\ \E i \in 1..Len(cells) :
           /\ NewBorn(i)
           /\ cells[i].y = size - 1
           /\ \A j \in 1..Len(Flipped) : Flipped[j].y = 0

(***************************************************************************)
(* C8: coordinate uniqueness invariant: in every state reached by calls of *)
(* mountSnapshot (each with a list free of duplicate coordinates) and of   *)
(* next, the live cells hold at most one cell per coordinate.              *)
(* The code contradicts it: mountSnapshot pushes a record whose coordinate *)
(* is already live.                                                        *)
(***************************************************************************)
C8_CoordinateUnique == CoordUnique(cells)

\* What does hold: next never adds a second cell to a coordinate.
NextKeepsUnique == (AfterNext /\ CoordUnique(pre)) => CoordUnique(cells)

(***************************************************************************)
(* C10: out-of-range moves are taken literally (SpecRaw): a move with x or *)
(* y outside 0..size-1 is carried out, not dropped and not wrapped: it     *)
(* turns the liveness of exactly its raw coordinate, and the coordinate of *)
(* the board congruent to it modulo size, like every other coordinate,     *)
(* stays as it was.                                                        *)
(***************************************************************************)
OffBoard(move) == move.x \notin 0..(size - 1) \/ move.y \notin 0..(size - 1)

C10_RawMoves ==
    AfterNext =>
        \A k \in 1..Len(arg) :
            OffBoard(arg[k]) =>
                /\ LiveAt(flips[k + 1], arg[k].x, arg[k].y)
                       <=> ~LiveAt(flips[k], arg[k].x, arg[k].y)
                /\ LiveAt(flips[k + 1], arg[k].x % size, arg[k].y % size)
                       <=> LiveAt(flips[k], arg[k].x % size, arg[k].y % size)
                /\ LiveCoords(flips[k + 1]) \ {<<arg[k].x, arg[k].y>>}
                       = LiveCoords(flips[k]) \ {<<arg[k].x, arg[k].y>>}

\* A move left of the board puts a cell at x = -1 while the congruent cell
\* of the board, at x = size - 1, is live and stays; a later move on the
\* same raw coordinate removes the cell again.
C10_Witness ==
    /\ AfterNext
    /\ Len(arg) = 2
    /\ arg[1].x = -1 /\ arg[2].x = -1
    /\ LiveAt(pre, size - 1, 0)
    /\ LiveAt(flips[2], -1, 0)
    /\ LiveAt(flips[2], size - 1, 0)
    /\ ~LiveAt(flips[3], -1, 0)
    /\ LiveAt(flips[3], size - 1, 0)

(***************************************************************************)
(* C11  mountSnapshot(records) adds exactly one live cell per record, at   *)
(* the record's (x, y) and with the record's player id as owner, leaves    *)
(* every cell that was live before as it was, and runs no generation step: *)
(* the list afterwards is the list before followed by one cell per record, *)
(* so the count is the count before plus the number of records.            *)
(***************************************************************************)
AfterMount == op = "mountSnapshot"

C11_MountAddsRecords ==
    AfterMount =>
        /\ Len(cells) = Len(pre) + Len(arg)
        /\ \A i \in 1..Len(pre) : cells[i] = pre[i]
        /\ \A k \in 1..Len(arg) :
               /\ cells[Len(pre) + k].x = arg[k].x
               /\ cells[Len(pre) + k].y = arg[k].y
               /\ cells[Len(pre) + k].owner = arg[k].playerid

\* Three records mounted on a grid that holds a cell already, one of them on
\* the coordinate of that cell.
C11_Witness ==
    /\ AfterMount
    /\ Len(pre) = 1
    /\ Len(arg) = 3
    /\ Len(cells) = 4
    /\ \E k \in 1..3 : arg[k].x = pre[1].x /\ arg[k].y = pre[1].y

\* The test of src/tests/performance.spec.js:17-37: three records mounted on
\* a new grid leave three cells.
MountThreeOnNew ==
    (AfterMount /\ calls = 1 /\ Len(arg) = 3) => Len(cells) = 3

(***************************************************************************)
(* C12  The wrap-around game: on the board of size 5 with the snapshot     *)
(* (1,2), (2,2), (3,2), the call next([(4,1),(4,3)]) leaves exactly 8 live *)
(* cells, one of them at (0,2); the following next([(0,1),(4,1)]) leaves   *)
(* exactly 7 and the following next([(4,3)]) exactly 14.                   *)
(***************************************************************************)
\* The list holds k cells, each on a coordinate of its own.  calls counts
\* the mount as well: the first call of next leaves calls = 2.
LiveCount(k) == Len(cells) = k /\ Cardinality(LiveCoords(cells)) = k

C12_TorusGame ==
    (size = TorusSize /\ AfterNext) =>
        /\ ~threw
        /\ calls = 2 => (LiveCount(8) /\ LiveAt(cells, 0, 2))
        /\ calls = 3 => LiveCount(7)
        /\ calls = 4 => LiveCount(14)

\* The game as the test plays it (player 1, the test's order of records),
\* at its end.
C12_Witness ==
    /\ size = TorusSize
    /\ AfterNext
    /\ calls = 4
    /\ arg = <<[x |-> 4, y |-> 3, playerid |-> 1]>>
    /\ Len(cells) = 14
    /\ \A i \in 1..Len(cells) : cells[i].owner = 1

(***************************************************************************)
(* C13  The blinker game: on the board of size 50 with the snapshot (2,3), *)
(* (3,3), (4,3), the calls next([(10,10),(15,15),(25,25)]),                *)
(* next([(5,2),(1,4),(25,25)]), next([]) and next([]) leave 3, 3, 1 and 0  *)
(* live cells, and after the second of them (4,2) and (2,4) are live.      *)
(***************************************************************************)
C13_BlinkerGame ==
    (size = BlinkerSize /\ AfterNext) =>
        /\ ~threw
        /\ calls = 2 => LiveCount(3)
        /\ calls = 3 => (LiveCount(3) /\ LiveAt(cells, 4, 2) /\ LiveAt(cells, 2, 4))
        /\ calls = 4 => LiveCount(1)
        /\ calls = 5 => LiveCount(0)

\* The second call of next as the test makes it, on the upright blinker the
\* first call left.
C13_Witness ==
    /\ size = BlinkerSize
    /\ AfterNext
    /\ calls = 3
    /\ arg = << [x |-> 5, y |-> 2, playerid |-> 1], [x |-> 1, y |-> 4, playerid |-> 1],
                [x |-> 25, y |-> 25, playerid |-> 1] >>
    /\ LiveCoords(pre) = {<<3, 2>>, <<3, 3>>, <<3, 4>>}
    /\ LiveCoords(cells) = {<<4, 2>>, <<2, 4>>, <<3, 3>>}

\* The game played to its end: the grid is empty after the fourth call of
\* next.
BlinkerGameOver == size = BlinkerSize /\ calls = 5 /\ cells = <<>> /\ pre # <<>>

(***************************************************************************)
(* C14  Nothing is born from nothing: when the grid holds no live cell,    *)
(* next([]) ends without an exception and leaves it holding no live cell.  *)
(* This covers mountSnapshot([]) followed by next([]) on a new grid and    *)
(* next([]) called again and again.                                        *)
(***************************************************************************)
C14_NothingFromNothing ==
    (AfterNext /\ pre = <<>> /\ arg = <<>>) => (cells = <<>> /\ ~threw)

\* The second call on a new grid is next([]), after mountSnapshot([]) or
\* after a first next([]).
C14_Witness ==
    /\ AfterNext
    /\ calls = 2
    /\ pre = <<>>
    /\ arg = <<>>
    /\ issued = 0
    /\ cells = <<>>

(***************************************************************************)
(* C15  The generation step is synchronous: the birth tests and the        *)
(* survival tests of one call of next all count live neighbours in the     *)
(* list the moves left.  The list next commits is the newborn cells, one   *)
(* on each dead position with exactly 3 live neighbours in that list       *)
(* (cells that die in this call counted), followed by the cells of that    *)
(* list with 2 or 3 live neighbours in it (newborn cells not counted).     *)
(* The code contradicts it where most throws (C9): nothing is committed.   *)
(***************************************************************************)
SurvivorsOf(cs, n) ==
    SelectSeq(cs, LAMBDA c : LiveNeighbours(cs, c.x, c.y, n) \in {2, 3})

BirthPlacesOf(cs, n) ==
    {c \in Board(n) : ~LiveAt(cs, c[1], c[2]) /\ LiveNeighbours(cs, c[1], c[2], n) = 3}

C15_SynchronousStep ==
    (AfterNext /\ InRange(Flipped, size) /\ CoordUnique(Flipped)) =>
        LET born == Len(cells) - Len(SurvivorsOf(Flipped, size))
        IN  /\ born = Cardinality(BirthPlacesOf(Flipped, size))
            /\ {<<cells[i].x, cells[i].y>> : i \in 1..born} = BirthPlacesOf(Flipped, size)
            /\ SubSeq(cells, born + 1, Len(cells)) = SurvivorsOf(Flipped, size)

\* The same for the calls of next that end without the exception of C9.
SynchronousStepUnlessThrown == threw \/ C15_SynchronousStep

\* A call of next in which a cell is born next to a cell that dies, and a
\* cell survives next to a newborn it could not survive with.
SynchronousStepSeen ==
    /\ AfterNext
    /\ ~threw
    /\ CoordUnique(Flipped)
    /\ Len(SurvivorsOf(Flipped, size)) < Len(Flipped)
    /\ BirthPlacesOf(Flipped, size) # {}
    /\ SurvivorsOf(Flipped, size) # SurvivorsOf(cells, size)

(***************************************************************************)
(* C16  The neighbour computation never leaves the board: whatever         *)
(* coordinates the moves gave to live cells, positions outside             *)
(* 0..size - 1 and negative ones included, every cell that next adds as a  *)
(* newborn has 0 <= x < size and 0 <= y < size.                            *)
(* The code contradicts it: the wrap adds size once, so the neighbours of  *)
(* a live cell at a coordinate of -size or below stay negative.            *)
(***************************************************************************)
OnBoard(c) == c.x \in 0..(size - 1) /\ c.y \in 0..(size - 1)

C16_NewbornsOnBoard ==
    \A i \in 1..Len(cells) : NewBorn(i) => OnBoard(cells[i])

\* The same where no live cell lies more than size - 1 before the board.
NewbornsOnBoardNearBoard ==
    (AfterNext /\ \A k \in 1..Len(Flipped) : Flipped[k].x > -size /\ Flipped[k].y > -size)
        => C16_NewbornsOnBoard

\* A newborn next to a live cell that a move put off the board.
NewbornBesideOffBoard ==
    \E i \in 1..Len(cells) :
        /\ NewBorn(i)
        /\ OnBoard(cells[i])
        /\ \E k \in 1..Len(Flipped) : ~OnBoard(Flipped[k])

(***************************************************************************)
(* C17  Tie-break of the ownership vote: when two or more players tie for  *)
(* the highest tally among the owned live neighbours of a newborn cell,    *)
(* the newborn is owned by the tied player who joined later, that is the   *)
(* tied player with the largest id.                                        *)
(* The code contradicts it: the reduction over the reversed keys keeps the *)
(* right-hand key on equal tallies, which is the smaller id.               *)
(***************************************************************************)
\* The players with the highest tally around (x, y), when any player has one.
Leaders(cs, x, y, n) ==
    {p \in Players :
        /\ Tally(cs, x, y, n, p) > 0
        /\ \A q \in Players : Tally(cs, x, y, n, q) <= Tally(cs, x, y, n, p)}

Largest(S) == CHOOSE p \in S : \A q \in S : q <= p

Smallest(S) == CHOOSE p \in S : \A q \in S : p <= q

C17_TieToLargestId ==
    (AfterNext /\ InRange(Flipped, size) /\ CoordUnique(Flipped)) =>
        \A i \in 1..Len(cells) :
            (NewBorn(i) /\ Cardinality(Leaders(Flipped, cells[i].x, cells[i].y, size)) >= 2)
                => cells[i].owner = Largest(Leaders(Flipped, cells[i].x, cells[i].y, size))

\* What the code does: the tied player with the smallest id owns the newborn.
TieToSmallestId ==
    (AfterNext /\ InRange(Flipped, size) /\ CoordUnique(Flipped)) =>
        \A i \in 1..Len(cells) :
            (NewBorn(i) /\ Cardinality(Leaders(Flipped, cells[i].x, cells[i].y, size)) >= 2)
                => cells[i].owner = Smallest(Leaders(Flipped, cells[i].x, cells[i].y, size))

\* A cell born with neighbours owned by player 1, by player 2 and by nobody.
TieSeen ==
    \E i \in 1..Len(cells) :
        /\ NewBorn(i)
        /\ CoordUnique(Flipped)
        /\ Leaders(Flipped, cells[i].x, cells[i].y, size) = {1, 2}
        /\ Tally(Flipped, cells[i].x, cells[i].y, size, Unowned) = 1

(***************************************************************************)
(* C18  A coordinate toggled twice in one batch is back in its original    *)
(* state when the moves have been applied: if it held a live cell owned by *)
(* player p before the batch, it again holds a live cell owned by p,       *)
(* whichever players issued the two moves.                                 *)
(* The code contradicts the owner: the second toggle makes a new cell,     *)
(* owned by the player of the second move.                                 *)
(***************************************************************************)
\* The last call was next with two moves on one coordinate, which was live
\* in a coordinate-unique list.
ToggledTwiceLive ==
    /\ AfterNext
    /\ Len(arg) = 2
    /\ arg[1].x = arg[2].x
    /\ arg[1].y = arg[2].y
    /\ CoordUnique(pre)
    /\ LiveAt(pre, arg[1].x, arg[1].y)

C18_ToggleTwiceKeepsOwner ==
    (ToggledTwiceLive /\ OwnerAt(pre, arg[1].x, arg[1].y) \in Players) =>
        /\ LiveAt(Flipped, arg[1].x, arg[1].y)
        /\ OwnerAt(Flipped, arg[1].x, arg[1].y) = OwnerAt(pre, arg[1].x, arg[1].y)

\* C18 as the code has it: the coordinate holds one live cell again, owned
\* by the player of the second move; the cells at the other coordinates are
\* the ones from before the batch.
C18_ToggleTwiceOwnedByMover ==
    ToggledTwiceLive =>
        /\ CountAt(Flipped, arg[1].x, arg[1].y) = 1
        /\ OwnerAt(Flipped, arg[1].x, arg[1].y) = arg[2].playerid
        /\ LiveCoords(Flipped) = LiveCoords(pre)
        /\ \A i \in 1..Len(pre) :
               (pre[i].x # arg[1].x \/ pre[i].y # arg[1].y) => CountOf(Flipped, pre[i]) = 1

\* The cell of player 1 toggled away by player 1 and back by player 2.
C18_Witness ==
    /\ ToggledTwiceLive
    /\ Len(pre) >= 2
    /\ OwnerAt(pre, arg[1].x, arg[1].y) = 1
    /\ arg[1].playerid = 1
    /\ arg[2].playerid = 2
    /\ OwnerAt(Flipped, arg[1].x, arg[1].y) = 2

(***************************************************************************)
(* C19  next preserves coordinate uniqueness: when the list holds at most  *)
(* one cell per coordinate before a call of next, then whatever the moves  *)
(* are (repeated coordinates included) it holds at most one cell per       *)
(* coordinate after every move and when the call ends: a dead coordinate   *)
(* next to several live cells is born at most once, and no newborn shares  *)
(* its coordinate with a survivor.                                         *)
(***************************************************************************)
C19_UniquenessPreserved ==
    (AfterNext /\ CoordUnique(pre)) =>
        /\ \A k \in 1..Len(flips) : CoordUnique(flips[k])
        /\ CoordUnique(cells)
        /\ \A i \in 1..Len(cells) : NewBorn(i) => CountAt(cells, cells[i].x, cells[i].y) = 1

\* A call of next with two moves on one coordinate that ends with a newborn
\* next to three distinct live cells, and with a survivor.
C19_Witness ==
    /\ AfterNext
    /\ CoordUnique(pre)
    /\ Len(arg) = 2
    /\ arg[1].x = arg[2].x
    /\ arg[1].y = arg[2].y
    /\ Len(Flipped) = 3
    /\ \E i, j \in 1..Len(cells) : NewBorn(i) /\ LiveAt(Flipped, cells[j].x, cells[j].y)

(***************************************************************************)
(* C20  The order of the live-cell list does not matter: two grids of one  *)
(* size whose lists hold the same coordinate-unique cells (x, y, owner) in *)
(* different orders, given the same move list, end next with the same      *)
(* cells (x, y, owner), the owners of the newborn cells included.          *)
(***************************************************************************)
CellSet(cs) == {cs[i] : i \in 1..Len(cs)}

\* Other orders of the list cs: two cells exchanged, the list rotated, the
\* list reversed.  For a list of up to three cells these are all its orders.
Exchanged(cs, i, j) ==
    [k \in 1..Len(cs) |-> IF k = i THEN cs[j] ELSE IF k = j THEN cs[i] ELSE cs[k]]

Rotated(cs, r) == [k \in 1..Len(cs) |-> cs[((k + r - 1) % Len(cs)) + 1]]

Reversed(cs) == [k \in 1..Len(cs) |-> cs[Len(cs) + 1 - k]]

Orders(cs) ==
    {Exchanged(cs, i, j) : i, j \in 1..Len(cs)}
        \cup {Rotated(cs, r) : r \in 1..Len(cs)}
        \cup {Reversed(cs)}

C20_OrderIndependent ==
    (AfterNext /\ CoordUnique(pre)) =>
        \A other \in Orders(pre) :
            /\ CellSet(step(applyMoves(other, arg), size)) = CellSet(cells)
            /\ stepThrows(applyMoves(other, arg), size) = threw

\* A call of next with a move, on a list of three cells with owners of
\* their own, in which a cell is born on a tie.
C20_Witness ==
    /\ AfterNext
    /\ Len(pre) = 3
    /\ {pre[i].owner : i \in 1..3} = {1, 2, Unowned}
    /\ Len(arg) = 1
    /\ \E i \in 1..Len(cells) :
           NewBorn(i) /\ Cardinality(Leaders(Flipped, cells[i].x, cells[i].y, size)) = 2

====
